---------------------------- MODULE Spec2Model ----------------------------
(***************************************************************************)
(* A model of get-github-permalink (src/src/extension.ts).                 *)
(*                                                                         *)
(* Strings are sequences of one-character strings, so that the regular     *)
(* expressions, the number formatting, the path splitting and the URL      *)
(* serialisation are computed character by character, as the code does.    *)
(*                                                                         *)
(* Four specifications share the variables:                                *)
(*   SpecParse  parseGithubUrl on a bounded set of remote URLs             *)
(*   SpecRepo   getRepositoryInfo on bounded remote lists                  *)
(*   SpecLink   getLinkForSelection on bounded repository states           *)
(*   Spec       the get-github-permalink.getPermalink command handler and  *)
(*              the settlement of its clipboard promise                    *)
(***************************************************************************)
EXTENDS Naturals, Sequences, FiniteSets

VARIABLES
    given,        \* SpecParse: the parts the input URL was assembled from
    url,          \* SpecParse: the argument of parseGithubUrl
    parsed,       \* SpecParse: what parseGithubUrl returned
    git,          \* SpecRepo, SpecLink: the Git API's answer to getRepository
    repoInfo,     \* SpecRepo: what getRepositoryInfo returned or threw
    platform,     \* SpecLink: the host (its path conventions, its current drive)
    selection,    \* SpecLink: the SelectionInfo handed to getLinkForSelection
    link,         \* SpecLink: what getLinkForSelection returned or threw
    invocations,  \* Spec: one record per run of the command callback
    clipboard     \* Spec: the text on the system clipboard

vars == <<given, url, parsed, git, repoInfo, platform, selection, link,
          invocations, clipboard>>

(***************************************************************************)
(* Bounds of the model.                                                    *)
(***************************************************************************)
MaxRepoTokens == 3
MaxRemotes == 2
MaxChanges == 2
MaxLine == 9
MaxInvocations == 2

(***************************************************************************)
(* Strings.                                                                *)
(***************************************************************************)
\* A value no string equals: its one element is not a single character.
Undefined == <<"undefined">>

Idle == [kind |-> "idle"]
Pending == [kind |-> "pending"]

\* The host: os decides path.sep and path.relative, and on Windows cwd is
\* the drive of the current directory of the process.
Posix == [os |-> "posix", cwd |-> <<>>]
Win32(drive) == [os |-> "win32", cwd |-> drive]

RECURSIVE Flatten(_)
Flatten(ss) == IF ss = <<>> THEN <<>> ELSE Head(ss) \o Flatten(Tail(ss))

StartsWith(s, p) == Len(s) >= Len(p) /\ SubSeq(s, 1, Len(p)) = p

EndsWith(s, p) == Len(s) >= Len(p) /\ SubSeq(s, Len(s) - Len(p) + 1, Len(s)) = p

Contains(s, c) == \E i \in 1..Len(s) : s[i] = c

SeqsUpTo(S, n) == UNION {[1..k -> S] : k \in 0..n}

(***************************************************************************)
(* The two regular expressions.  Both have the shape                       *)
(*     ^ pre (?:opt)? mid (?<organization>[^/]+) / (?<repository>.+?)      *)
(*       (?:.git)? $                                                       *)
(* and are kept as the source text of their literal parts, in which, as in *)
(* the source, a "." is the regular expression's any-character atom.       *)
(***************************************************************************)
GITHUB_REMOTE_SSH_REGEX ==
    [pre |-> <<>>,
     opt |-> <<"s","s","h",":","/","/">>,
     mid |-> <<"g","i","t","@","g","i","t","h","u","b",".","c","o","m",":">>,
     suffix |-> <<".","g","i","t">>]

GITHUB_REMOTE_HTTP_REGEX ==
    [pre |-> <<"h","t","t","p">>,
     opt |-> <<"s">>,
     mid |-> <<":","/","/","g","i","t","h","u","b",".","c","o","m","/">>,
     suffix |-> <<".","g","i","t">>]

\* The characters the atom "." does not match (no s flag).
LineTerminators == {"\n", "\r"}

\* One atom of a pattern's literal text against one character.
AtomMatches(atom, c) == IF atom = "." THEN c \notin LineTerminators ELSE atom = c

\* A run of atoms against a string of the same length.
AtomsMatch(atoms, s) ==
    /\ Len(atoms) = Len(s)
    /\ \A i \in 1..Len(atoms) : AtomMatches(atoms[i], s[i])

\* The atoms matched at the start of s.
AtomsMatchPrefix(atoms, s) ==
    Len(s) >= Len(atoms) /\ AtomsMatch(atoms, SubSeq(s, 1, Len(atoms)))

\* (?<repository>.+?)(?:.git)?$ against the rest of the string: the lengths
\* the lazy group can stop at.  After n characters the optional group is
\* tried first, and skipped when it fails; "$" has no m flag and matches
\* at the end of the input only.
RepositoryLengths(regex, rest) ==
    {n \in 1..Len(rest) :
        /\ \A i \in 1..n : AtomMatches(".", rest[i])
        /\ \/ AtomsMatch(regex.suffix, SubSeq(rest, n + 1, Len(rest)))
           \/ n = Len(rest)}

Min(S) == CHOOSE n \in S : \A m \in S : n <= m
Max(S) == CHOOSE n \in S : \A m \in S : n >= m

\* (?<organization>[^/]+)/ and the rest, after a head of length h: the
\* ends the greedy group can stop at with the whole match succeeding.
OrganizationEnds(regex, s, h) ==
    {e \in (h + 1)..(Len(s) - 1) :
        /\ \A i \in (h + 1)..e : s[i] # "/"
        /\ s[e + 1] = "/"
        /\ RepositoryLengths(regex, SubSeq(s, e + 2, Len(s))) # {}}

\* The heads of the pattern, in the order the matcher tries them: the
\* optional group is greedy, so with it first.
RegexHeads(regex) == <<regex.pre \o regex.opt \o regex.mid, regex.pre \o regex.mid>>

\* String.prototype.match with one of the two expressions: null, or the
\* named groups of the first match the backtracking search finds.
RegexMatch(s, regex) ==
    LET heads == RegexHeads(regex)
        ok(k) == /\ AtomsMatchPrefix(heads[k], s)
                 /\ OrganizationEnds(regex, s, Len(heads[k])) # {}
        hits == {k \in 1..Len(heads) : ok(k)}
    IN  IF hits = {} THEN [kind |-> "null"]
        ELSE LET h == Len(heads[Min(hits)])
                 e == Max(OrganizationEnds(regex, s, h))
                 rest == SubSeq(s, e + 2, Len(s))
                 n == Min(RepositoryLengths(regex, rest))
             IN  [kind |-> "match",
                  organization |-> SubSeq(s, h + 1, e),
                  repository |-> SubSeq(rest, 1, n)]

NoMatch == [kind |-> "undefined"]

RepositoryName(organization, repository) ==
    [kind |-> "RepositoryName", organization |-> organization, repository |-> repository]

parseGithubUrl(u) ==
    IF u = Undefined THEN NoMatch
    ELSE LET ssh == RegexMatch(u, GITHUB_REMOTE_SSH_REGEX)
             match == IF ssh.kind # "null" THEN ssh
                      ELSE RegexMatch(u, GITHUB_REMOTE_HTTP_REGEX)
         IN  IF match.kind = "null" THEN NoMatch
             ELSE RepositoryName(match.organization, match.repository)

(***************************************************************************)
(* SpecParse: parseGithubUrl applied to one URL.  The URL is assembled     *)
(* from a form, a host, an organization, a repository name, an optional    *)
(* ".git" and optional text before or after it.                            *)
(***************************************************************************)
GithubHost == <<"g","i","t","h","u","b",".","c","o","m">>

Hosts == {GithubHost,
          <<"g","i","t","h","u","b","X","c","o","m">>,
          <<"g","i","t","l","a","b",".","c","o","m">>}

Forms == {"ssh", "sshScheme", "https", "http"}

FormHead(form, host) ==
    CASE form = "ssh" -> <<"g","i","t","@">> \o host \o <<":">>
      [] form = "sshScheme" -> <<"s","s","h",":","/","/","g","i","t","@">> \o host \o <<":">>
      [] form = "https" -> <<"h","t","t","p","s",":","/","/">> \o host \o <<"/">>
      [] form = "http" -> <<"h","t","t","p",":","/","/">> \o host \o <<"/">>

Orgs == {<<>>, <<"o">>, <<"f","o","o">>, <<"o",".">>}

RepoTokens == {<<"a">>, <<"/">>, <<".">>, <<"g","i","t">>}

Repos == {Flatten(ts) : ts \in SeqsUpTo(RepoTokens, MaxRepoTokens)}

DotGit == <<".","g","i","t">>

Junk == {"none", "lead", "trail"}

GivenUrls ==
    [form : Forms, host : Hosts, org : Orgs, repo : Repos, dotGit : BOOLEAN, junk : Junk]

UrlOf(g) ==
    (IF g.junk = "lead" THEN <<"x">> ELSE <<>>)
    \o FormHead(g.form, g.host) \o g.org \o <<"/">> \o g.repo
    \o (IF g.dotGit THEN DotGit ELSE <<>>)
    \o (IF g.junk = "trail" THEN <<"\n">> ELSE <<>>)

InitParse ==
    /\ \/ given \in GivenUrls /\ url = UrlOf(given)
       \/ given = [form |-> "undefined"] /\ url = Undefined
    /\ parsed = Pending
    /\ git = Idle /\ repoInfo = Idle
    /\ platform = Posix /\ selection = Idle /\ link = Idle
    /\ invocations = <<>> /\ clipboard = <<>>

ParseGithubUrl ==
    /\ parsed = Pending
    /\ parsed' = parseGithubUrl(url)
    /\ UNCHANGED <<given, url, git, repoInfo, platform, selection, link,
                   invocations, clipboard>>

NextParse == ParseGithubUrl

SpecParse == InitParse /\ [][NextParse]_vars

(***************************************************************************)
(* The Git extension's objects.  git is the answer of git.getRepository    *)
(* for the selected file: null, or a Repository with its rootUri and its   *)
(* state (remotes, workingTreeChanges, HEAD).                              *)
(***************************************************************************)
Null == [kind |-> "null"]

Uri(path) == [scheme |-> <<"f","i","l","e">>, path |-> path]


Remote(fetchUrl, pushUrl) == [fetchUrl |-> fetchUrl, pushUrl |-> pushUrl]

NoHead == [kind |-> "undefined"]
Ref(commit) == [kind |-> "Ref", commit |-> commit]

RepositoryState(remotes, workingTreeChanges, HEAD) ==
    [remotes |-> remotes, workingTreeChanges |-> workingTreeChanges, HEAD |-> HEAD]

Repository(rootUri, state) == [kind |-> "Repository", rootUri |-> rootUri, state |-> state]

\* Every failure of the extension is a GetPermalinkError; the message tells
\* them apart.  file is the file the message names, if it names one.
GetPermalinkError(message, file) ==
    [kind |-> "GetPermalinkError", message |-> message, file |-> file]

NoRepositoryFound(fileUri) ==
    GetPermalinkError("No matching repository found for file", fileUri.path)
NoGitHubRemote ==
    GetPermalinkError("No GitHub origins found for matching repository", <<>>)
FileModified(fileUri) ==
    GetPermalinkError("Can't copy permalink because file has been modified", fileUri.path)
NoCommitHash ==
    GetPermalinkError("Couldn't determine commit sha for HEAD", <<>>)

\* Mutant of Coalesce: the push URL is preferred to the fetch URL.
CoalescePushFirst(a, b) == IF b # Undefined THEN b ELSE a

\* a ?? b
Coalesce(a, b) == IF a # Undefined THEN a ELSE b

\* Mutant of RemotesLoop: the throw is inside the loop, so a first remote
\* that does not parse ends the search.
RemotesLoopFirstOnly(repository, i) ==
    IF i > Len(repository.state.remotes) THEN NoGitHubRemote
    ELSE LET remote == repository.state.remotes[i]
             repositoryName == parseGithubUrl(Coalesce(remote.fetchUrl, remote.pushUrl))
         IN  IF repositoryName # NoMatch
             THEN [kind |-> "RepositoryInfo",
                   organization |-> repositoryName.organization,
                   repository |-> repositoryName.repository,
                   state |-> repository.state,
                   rootUri |-> repository.rootUri]
             ELSE NoGitHubRemote

\* The for-of loop of getRepositoryInfo from remote i on: the first remote
\* whose fetchUrl ?? pushUrl parses returns, and the end of the list throws.
RECURSIVE RemotesLoop(_, _)
RemotesLoop(repository, i) ==
    IF i > Len(repository.state.remotes) THEN NoGitHubRemote
    ELSE LET remote == repository.state.remotes[i]
             repositoryName == parseGithubUrl(Coalesce(remote.fetchUrl, remote.pushUrl))
         IN  IF repositoryName # NoMatch
             THEN [kind |-> "RepositoryInfo",
                   organization |-> repositoryName.organization,
                   repository |-> repositoryName.repository,
                   state |-> repository.state,
                   rootUri |-> repository.rootUri]
             ELSE RemotesLoop(repository, i + 1)

\* failIfNull(git.getRepository(fileUri), ...) and the loop.
getRepositoryInfo(g, fileUri) ==
    IF g = Null THEN NoRepositoryFound(fileUri) ELSE RemotesLoop(g, 1)

(***************************************************************************)
(* SpecRepo: getRepositoryInfo on every list of at most MaxRemotes remotes *)
(* whose URLs are absent, a GitHub SSH URL, a GitHub HTTPS URL of another  *)
(* repository, or a GitLab URL.                                            *)
(***************************************************************************)
SshFooBar ==
    <<"g","i","t","@","g","i","t","h","u","b",".","c","o","m",":","f","o","o","/","b","a","r",".","g","i","t">>
HttpsBazQux ==
    <<"h","t","t","p","s",":","/","/","g","i","t","h","u","b",".","c","o","m","/","b","a","z","/","q","u","x">>
HttpsGitlab ==
    <<"h","t","t","p","s",":","/","/","g","i","t","l","a","b",".","c","o","m","/","a","/","b">>

RemoteUrls == {Undefined, SshFooBar, HttpsBazQux, HttpsGitlab}

Remotes == {Remote(f, p) : f \in RemoteUrls, p \in RemoteUrls}

Commit == <<"a","b","c","1","2","3">>

PosixRoot == Uri(<<"/","r">>)
PosixFile == Uri(<<"/","r","/","a",".","t","s">>)

InitRepo ==
    /\ \/ git = Null
       \/ \E remotes \in SeqsUpTo(Remotes, MaxRemotes) :
            git = Repository(PosixRoot, RepositoryState(remotes, <<>>, Ref(Commit)))
    /\ repoInfo = Pending
    /\ given = Idle /\ url = Undefined /\ parsed = Idle
    /\ platform = Posix /\ selection = Idle /\ link = Idle
    /\ invocations = <<>> /\ clipboard = <<>>

GetRepositoryInfo ==
    /\ repoInfo = Pending
    /\ repoInfo' = getRepositoryInfo(git, PosixFile)
    /\ UNCHANGED <<given, url, parsed, git, platform, selection, link,
                   invocations, clipboard>>

NextRepo == GetRepositoryInfo

SpecRepo == InitRepo /\ [][NextRepo]_vars

(***************************************************************************)
(* Numbers, paths and URLs.                                                *)
(***************************************************************************)
Digits == <<"0","1","2","3","4","5","6","7","8","9">>

\* `${n}` for a non-negative integer: its decimal digits.
RECURSIVE ToString(_)
ToString(n) ==
    IF n < 10 THEN <<Digits[n + 1]>> ELSE ToString(n \div 10) \o <<Digits[(n % 10) + 1]>>

\* String.prototype.split(sep) for the separators in seps: the pieces
\* between separators, empty pieces included.
RECURSIVE SplitOn(_, _)
SplitOn(s, seps) ==
    IF \A i \in 1..Len(s) : s[i] \notin seps THEN <<s>>
    ELSE LET k == Min({i \in 1..Len(s) : s[i] \in seps})
         IN  <<SubSeq(s, 1, k - 1)>> \o SplitOn(SubSeq(s, k + 1, Len(s)), seps)

\* Array.prototype.join(sep)
RECURSIVE Join(_, _)
Join(tokens, sep) ==
    IF tokens = <<>> THEN <<>>
    ELSE IF Len(tokens) = 1 THEN tokens[1]
    ELSE tokens[1] \o sep \o Join(Tail(tokens), sep)

NonEmpty(tokens) == SelectSeq(tokens, LAMBDA t : t # <<>>)

ReplaceAll(s, from, to) == [i \in 1..Len(s) |-> IF s[i] = from THEN to ELSE s[i]]

Letters == {"a","b","c","d","e","f","g","h","i","j","k","l","m",
            "n","o","p","q","r","s","t","u","v","w","x","y","z"}

\* path.sep
PathSep(plat) == IF plat.os = "win32" THEN "\\" ELSE "/"

\* The separators path.relative recognises in its arguments.
PathSeparators(plat) == IF plat.os = "win32" THEN {"\\", "/"} ELSE {"/"}

\* vscode.Uri.fsPath of a file URI: the path, without the slash before a
\* drive letter, and with the platform's separator on Windows.  (The drive
\* letters of the model are lower-case, as fsPath makes them.)
FsPath(plat, uri) ==
    LET p == uri.path
        value == IF Len(p) >= 3 /\ p[1] = "/" /\ p[2] \in Letters /\ p[3] = ":"
                 THEN Tail(p) ELSE p
    IN  IF plat.os = "win32" THEN ReplaceAll(value, "/", "\\") ELSE value

CommonPrefixLen(a, b) ==
    Max({n \in 0..Min({Len(a), Len(b)}) : SubSeq(a, 1, n) = SubSeq(b, 1, n)})

\* path.resolve of a rooted, normalised path, as its components: on Windows
\* a path that names no drive is on the drive of the current directory.
PathResolve(plat, path) ==
    LET components == NonEmpty(SplitOn(path, PathSeparators(plat)))
        hasDrive == /\ components # <<>>
                    /\ components[1][Len(components[1])] = ":"
    IN  IF plat.os = "win32" /\ ~hasDrive THEN <<plat.cwd>> \o components ELSE components

\* path.relative(from, to) for rooted, normalised paths: one double-dot for
\* each component of from below the common directory, then the rest of to.
\* On Windows paths on different drives have nothing in common and the
\* resolved to is returned.
PathRelative(plat, from, to) ==
    LET f == PathResolve(plat, from)
        t == PathResolve(plat, to)
        n == CommonPrefixLen(f, t)
        ups == [i \in 1..(Len(f) - n) |-> <<".", ".">>]
    IN  IF plat.os = "win32" /\ n = 0 THEN Join(t, <<PathSep(plat)>>)
        ELSE Join(ups \o SubSeq(t, n + 1, Len(t)), <<PathSep(plat)>>)

\* The URL parser removes these from its input.
TabOrNewline == {"\t", "\n", "\r"}

\* The path percent-encode set, with the code each character becomes (the
\* printable ASCII part of it, but for the grave accent, which a string of
\* this module cannot hold).
PathPercentEncode ==
    {<<" ", <<"%","2","0">> >>, <<"\"", <<"%","2","2">> >>, <<"#", <<"%","2","3">> >>,
     <<"<", <<"%","3","C">> >>, <<">", <<"%","3","E">> >>, <<"?", <<"%","3","F">> >>,
     <<"{", <<"%","7","B">> >>, <<"}", <<"%","7","D">> >>}

\* The fragment percent-encode set.
FragmentPercentEncode ==
    {e \in PathPercentEncode : e[1] \in {" ", "\"", "<", ">"}}

RECURSIVE PercentEncode(_, _)
PercentEncode(s, set) ==
    IF s = <<>> THEN <<>>
    ELSE LET c == Head(s)
             hit == {e \in set : e[1] = c}
         IN  (IF hit = {} THEN <<c>> ELSE (CHOOSE e \in hit : TRUE)[2])
             \o PercentEncode(Tail(s), set)

\* The path state of the URL parser over the segments still to read: a
\* double-dot segment drops the last segment of the path, a single-dot
\* segment adds nothing, either one as the last segment leaves an empty
\* segment, and any other segment is added percent-encoded.
RECURSIVE PathState(_, _)
PathState(path, segments) ==
    IF segments = <<>> THEN path
    ELSE LET buffer == Head(segments)
             last == Len(segments) = 1
             shortened == IF path = <<>> THEN path ELSE SubSeq(path, 1, Len(path) - 1)
             next == IF buffer = <<".", ".">>
                       THEN (IF last THEN shortened \o << <<>> >> ELSE shortened)
                     ELSE IF buffer = <<".">>
                       THEN (IF last THEN path \o << <<>> >> ELSE path)
                     ELSE path \o <<PercentEncode(buffer, PathPercentEncode)>>
         IN  PathState(next, Tail(segments))

\* Mutant of UrlSetPathname: the path is put into the URL as it is written.
UrlSetPathnameVerbatim(value) == value

\* The pathname setter of a URL with a special scheme (https): tabs and
\* newlines are removed, one leading slash starts the path, and both "/" and
\* "\" end a segment.  The getter gives the segments, each after a "/".
UrlSetPathname(value) ==
    LET input == SelectSeq(value, LAMBDA c : c \notin TabOrNewline)
        rest == IF input # <<>> /\ input[1] \in {"/", "\\"} THEN Tail(input) ELSE input
    IN  <<"/">> \o Join(PathState(<<>>, SplitOn(rest, {"/", "\\"})), <<"/">>)

\* The hash setter: the empty string clears the fragment; otherwise one
\* leading "#" is dropped and the rest is percent-encoded.  The getter gives
\* "#" and the fragment.
UrlSetHash(value) ==
    LET input == IF value # <<>> /\ value[1] = "#" THEN Tail(value) ELSE value
        kept == SelectSeq(input, LAMBDA c : c \notin TabOrNewline)
    IN  IF value = <<>> THEN <<>> ELSE <<"#">> \o PercentEncode(kept, FragmentPercentEncode)

\* new URL("https://github.com")
GithubOrigin == <<"h","t","t","p","s",":","/","/","g","i","t","h","u","b",".","c","o","m">>

\* url.toString(): the origin, the pathname and the hash.
UrlToString(u) == u.origin \o u.pathname \o u.hash

(***************************************************************************)
(* getLinkForSelection and its steps.  A step that throws gives a          *)
(* GetPermalinkError; calls lists the functions entered, in order.         *)
(***************************************************************************)
SelectionInfo(fileUri, startLine, endLine) ==
    [fileUri |-> fileUri, startLine |-> startLine, endLine |-> endLine,
     isSingleLine |-> startLine = endLine]

\* Mutant of getLineAnchor: the end line is left zero-indexed.
getLineAnchorEndZeroIndexed(sel) ==
    IF sel.isSingleLine
    THEN <<"L">> \o ToString(sel.startLine + 1)
    ELSE <<"L">> \o ToString(sel.startLine + 1) \o <<"-","L">> \o ToString(sel.endLine)

getLineAnchor(sel) ==
    IF sel.isSingleLine
    THEN <<"L">> \o ToString(sel.startLine + 1)
    ELSE <<"L">> \o ToString(sel.startLine + 1) \o <<"-","L">> \o ToString(sel.endLine + 1)

\* failIfUndefined(repositoryState.HEAD?.commit, ...)
getCommitHash(repositoryState) ==
    LET commit == IF repositoryState.HEAD = NoHead THEN Undefined
                  ELSE repositoryState.HEAD.commit
    IN  IF commit = Undefined THEN NoCommitHash ELSE [kind |-> "string", value |-> commit]

\* Mutant of failIfChangedFile: the URIs are compared as objects, and no
\* change is ever the file.
failIfChangedFileByIdentity(repositoryState, fileUri) == [kind |-> "void"]

\* The forEach over workingTreeChanges: the first change of the file throws.
failIfChangedFile(repositoryState, fileUri) ==
    IF \E i \in 1..Len(repositoryState.workingTreeChanges) :
           repositoryState.workingTreeChanges[i].uri.path = fileUri.path
    THEN FileModified(fileUri)
    ELSE [kind |-> "void"]

Returned(result, calls) == [result |-> result, calls |-> calls]

\* Mutant of UriPathTokens: the repository comes before the organization.
UriPathTokensSwapped(repositoryInfo, commitHash, tokenizedRelativePath) ==
    <<repositoryInfo.repository, repositoryInfo.organization, <<"b","l","o","b">>,
      commitHash>> \o tokenizedRelativePath

UriPathTokens(repositoryInfo, commitHash, tokenizedRelativePath) ==
    <<repositoryInfo.organization, repositoryInfo.repository, <<"b","l","o","b">>,
      commitHash>> \o tokenizedRelativePath

\* Lines 119 to 130: the URL of the permalink.
LinkUrl(plat, sel, repositoryInfo, relativePath, commitHash) ==
    [kind |-> "URL",
     origin |-> GithubOrigin,
     pathname |-> UrlSetPathname(
         <<"/">> \o Join(UriPathTokens(repositoryInfo, commitHash,
                                       SplitOn(relativePath, {PathSep(plat)})),
                         <<"/">>)),
     hash |-> UrlSetHash(getLineAnchor(sel))]

\* Line 118 on, with the relative path of lines 113 to 116.
LinkAfterRelativePath(plat, sel, repositoryInfo, relativePath, commitHash) ==
    IF commitHash.kind = "GetPermalinkError"
    THEN Returned(commitHash, <<"getRepositoryInfo", "failIfChangedFile", "getCommitHash">>)
    ELSE Returned(LinkUrl(plat, sel, repositoryInfo, relativePath, commitHash.value),
                  <<"getRepositoryInfo", "failIfChangedFile", "getCommitHash",
                    "getLineAnchor">>)

\* Line 111 on, with what failIfChangedFile did.
LinkAfterChangedFile(plat, sel, repositoryInfo, changed) ==
    IF changed.kind = "GetPermalinkError"
    THEN Returned(changed, <<"getRepositoryInfo", "failIfChangedFile">>)
    ELSE LinkAfterRelativePath(plat, sel, repositoryInfo,
             PathRelative(plat, FsPath(plat, repositoryInfo.rootUri),
                          FsPath(plat, sel.fileUri)),
             getCommitHash(repositoryInfo.state))

\* Line 110 on, with what getRepositoryInfo did.
LinkAfterRepositoryInfo(plat, sel, repositoryInfo) ==
    IF repositoryInfo.kind = "GetPermalinkError"
    THEN Returned(repositoryInfo, <<"getRepositoryInfo">>)
    ELSE LinkAfterChangedFile(plat, sel, repositoryInfo,
             failIfChangedFile(repositoryInfo.state, sel.fileUri))

getLinkForSelection(plat, g, sel) ==
    LinkAfterRepositoryInfo(plat, sel, getRepositoryInfo(g, sel.fileUri))

(***************************************************************************)
(* SpecLink: getLinkForSelection on a repository at /r (posix) or c:\r     *)
(* (win32, run from drive c: or d:), one of a few files in it, every selection of lines up to       *)
(* MaxLine, every list of at most MaxChanges working-tree changes, every   *)
(* HEAD, and a few remote lists.                                           *)
(***************************************************************************)
Platforms == {Posix, Win32(<<"c",":">>), Win32(<<"d",":">>)}

RootUri(plat) == IF plat.os = "win32" THEN Uri(<<"/","c",":","/","r">>) ELSE PosixRoot

\* Names of files below the root, as URI paths relative to it.
FileNames(plat) ==
    {<<"s","r","c","/","e","x","t","e","n","s","i","o","n",".","t","s">>,
     <<"a",".","t","s">>,
     <<"d","o","c","s","/","m","y"," ","f","i","l","e",".","t","s">>}
    \cup (IF plat.os = "posix"
          THEN {<<"s","r","c","\\","e","x","t","e","n","s","i","o","n",".","t","s">>}
          ELSE {})

FileUri(plat, name) == Uri(RootUri(plat).path \o <<"/">> \o name)

\* The files a working-tree change may be of.
ChangedNames ==
    {<<"s","r","c","/","e","x","t","e","n","s","i","o","n",".","t","s">>, <<"a",".","t","s">>}

Changes(plat) == {[uri |-> FileUri(plat, name)] : name \in ChangedNames}

Heads == {NoHead, Ref(Undefined), Ref(Commit)}

LinkRemoteLists ==
    {<<>>,
     <<Remote(HttpsGitlab, Undefined)>>,
     <<Remote(SshFooBar, Undefined)>>,
     <<Remote(HttpsGitlab, SshFooBar), Remote(Undefined, HttpsBazQux)>>}

Selections(plat) ==
    {SelectionInfo(FileUri(plat, name), startLine, endLine) :
        name \in FileNames(plat), startLine \in 0..MaxLine, endLine \in 0..MaxLine}

InitLink ==
    /\ platform \in Platforms
    /\ selection \in {sel \in Selections(platform) : sel.startLine <= sel.endLine}
    /\ \/ git = Null
       \/ \E remotes \in LinkRemoteLists,
             changes \in SeqsUpTo(Changes(platform), MaxChanges),
             HEAD \in Heads :
            git = Repository(RootUri(platform), RepositoryState(remotes, changes, HEAD))
    /\ link = Pending
    /\ given = Idle /\ url = Undefined /\ parsed = Idle /\ repoInfo = Idle
    /\ invocations = <<>> /\ clipboard = <<>>

GetLinkForSelection ==
    /\ link = Pending
    /\ link' = getLinkForSelection(platform, git, selection)
    /\ UNCHANGED <<given, url, parsed, git, repoInfo, platform, selection,
                   invocations, clipboard>>

NextLink == GetLinkForSelection

SpecLink == InitLink /\ [][NextLink]_vars

(***************************************************************************)
(* The command get-github-permalink.getPermalink.  env is the state of the *)
(* host when the callback runs: the Git extension, the active editor, the  *)
(* answer of git.getRepository, the platform.                              *)
(***************************************************************************)
\* An error that is no GetPermalinkError.
Error(message) == [kind |-> "Error", message |-> message]

\* getGitOrElse: the exports of vscode.git are undefined when the extension
\* is missing, and getAPI throws when the extension is disabled.
getGitOrElse(env) ==
    IF env.gitExtension = "missing"
    THEN GetPermalinkError("VSCode Git extension must be configured", <<>>)
    ELSE IF env.gitExtension = "disabled"
    THEN Error("Git model not found")
    ELSE [kind |-> "API", repository |-> env.repository]

\* vscode.Uri.parse of a name with no authority part: a scheme is what
\* precedes the first colon when no slash, question mark or hash comes
\* before it (and the scheme is file without one), and the path ends before
\* the first question mark or hash.
UriParse(value) ==
    LET stops == {i \in 1..Len(value) : value[i] \in {":", "/", "?", "#"}}
        hasScheme == stops # {} /\ Min(stops) > 1 /\ value[Min(stops)] = ":"
        rest == IF hasScheme THEN SubSeq(value, Min(stops) + 1, Len(value)) ELSE value
        ends == {i \in 1..Len(rest) : rest[i] \in {"?", "#"}}
        path == IF ends = {} THEN rest ELSE SubSeq(rest, 1, Min(ends) - 1)
    IN  [scheme |-> IF hasScheme THEN SubSeq(value, 1, Min(stops) - 1)
                    ELSE <<"f","i","l","e">>,
         path |-> path]

\* vscode.window.activeTextEditor: undefined, or an editor with the name of
\* its document and the lines of its selection.
NoEditor == [kind |-> "undefined"]
TextEditor(fileName, startLine, endLine) ==
    [kind |-> "TextEditor", fileName |-> fileName, startLine |-> startLine,
     endLine |-> endLine]

getSelectionInfo(activeTextEditor) ==
    SelectionInfo(UriParse(activeTextEditor.fileName),
                  activeTextEditor.startLine, activeTextEditor.endLine)

\* Line 146: the text handed to clipboard.writeText, unless
\* getLinkForSelection threw.
TryAfterLink(returned) ==
    IF returned.result.kind = "GetPermalinkError" THEN returned.result
    ELSE [kind |-> "writeText", text |-> UrlToString(returned.result)]

\* Lines 139 to 146, with what getGitOrElse did.
TryAfterGit(env, api) ==
    IF api.kind # "API" THEN api
    ELSE IF env.activeTextEditor = NoEditor
    THEN GetPermalinkError("Could not find active text editor", <<>>)
    ELSE TryAfterLink(getLinkForSelection(env.platform, api.repository,
                                          getSelectionInfo(env.activeTextEditor)))

\* The try block up to the call of writeText: the error thrown, or the text
\* handed to the clipboard.
TryBlock(env) == TryAfterGit(env, getGitOrElse(env))

\* One run of the callback: what it did before it returned or threw.
\*   outcome        the error the try block threw, or the text it wrote
\*   writes         calls of clipboard.writeText
\*   errorMessages  calls of window.showErrorMessage
\*   infoMessages   calls of window.showInformationMessage
\*   thrown         the callback threw
\*   promise        the thenable of writeText: none, pending, fulfilled, rejected
Invocation(outcome, writes, errorMessages, thrown, promise) ==
    [outcome |-> outcome, writes |-> writes,
     errorMessages |-> errorMessages, infoMessages |-> 0,
     thrown |-> thrown, promise |-> promise]

\* Mutant of Catch: every error is shown and none is thrown again.
CatchAll(outcome) ==
    IF outcome.kind = "writeText"
    THEN Invocation(outcome, 1, 0, FALSE, "pending")
    ELSE Invocation(outcome, 0, 1, FALSE, "none")

\* The end of the try block and the catch clause: the text is written, a
\* GetPermalinkError is shown, and anything else is thrown again.
Catch(outcome) ==
    IF outcome.kind = "writeText"
    THEN Invocation(outcome, 1, 0, FALSE, "pending")
    ELSE IF outcome.kind = "GetPermalinkError"
    THEN Invocation(outcome, 0, 1, FALSE, "none")
    ELSE Invocation(outcome, 0, 0, TRUE, "none")

\* The callback of the command.
getPermalink(env) == Catch(TryBlock(env))

(***************************************************************************)
(* Spec: the command is run at most MaxInvocations times, each time in any *)
(* state of the host, and the clipboard settles each write in its own      *)
(* time.                                                                   *)
(***************************************************************************)
EditorFiles(plat) ==
    IF plat.os = "win32"
    THEN {<<"c",":","\\","r","\\","a",".","t","s">>}
    ELSE {<<"/","r","/","a",".","t","s">>,
          <<"/","r","/","d","o","c","s","/","m","y"," ","f","i","l","e",".","t","s">>}

\* No editor, or an editor on one of the files with lines 5 to MaxLine + 1
\* selected.
Editors(plat) ==
    {NoEditor} \cup {TextEditor(f, 4, MaxLine) : f \in EditorFiles(plat)}

\* No repository, a clean one with a GitHub remote and a commit, and the
\* same one without remotes, with a.ts changed, or without HEAD.
CommandRepositories(plat) ==
    LET remotes == <<Remote(SshFooBar, Undefined)>>
        changes == <<[uri |-> FileUri(plat, <<"a",".","t","s">>)]>>
    IN  {Null,
         Repository(RootUri(plat), RepositoryState(remotes, <<>>, Ref(Commit))),
         Repository(RootUri(plat), RepositoryState(<<>>, <<>>, Ref(Commit))),
         Repository(RootUri(plat), RepositoryState(remotes, changes, Ref(Commit))),
         Repository(RootUri(plat), RepositoryState(remotes, <<>>, NoHead))}

Envs ==
    UNION {[gitExtension : {"missing", "disabled", "enabled"},
            activeTextEditor : Editors(plat),
            repository : CommandRepositories(plat),
            platform : {plat}] : plat \in Platforms}

\* What one run of the callback can do, over the states of the host.
Runs == {getPermalink(env) : env \in Envs}

Init ==
    /\ invocations = <<>>
    /\ clipboard = <<>>
    /\ given = Idle /\ url = Undefined /\ parsed = Idle
    /\ git = Idle /\ repoInfo = Idle
    /\ platform = Posix /\ selection = Idle /\ link = Idle

\* The user runs the command.
GetPermalink ==
    /\ Len(invocations) < MaxInvocations
    /\ \E invocation \in Runs : invocations' = Append(invocations, invocation)
    /\ UNCHANGED <<given, url, parsed, git, repoInfo, platform, selection, link,
                   clipboard>>

\* writeText succeeded: the first callback of then shows the information
\* message.
WriteTextFulfilled(i) ==
    /\ invocations[i].promise = "pending"
    /\ invocations' = [invocations EXCEPT ![i].promise = "fulfilled",
                                          ![i].infoMessages = @ + 1]
    /\ clipboard' = invocations[i].outcome.text
    /\ UNCHANGED <<given, url, parsed, git, repoInfo, platform, selection, link>>

\* writeText failed: the second callback of then shows Failed copying.
WriteTextRejected(i) ==
    /\ invocations[i].promise = "pending"
    /\ invocations' = [invocations EXCEPT ![i].promise = "rejected",
                                          ![i].errorMessages = @ + 1]
    /\ UNCHANGED <<given, url, parsed, git, repoInfo, platform, selection, link,
                   clipboard>>

Next ==
    \/ GetPermalink
    \/ \E i \in 1..Len(invocations) : WriteTextFulfilled(i)
    \/ \E i \in 1..Len(invocations) : WriteTextRejected(i)

Spec == Init /\ [][Next]_vars

(***************************************************************************)
(* The claims.                                                             *)
(***************************************************************************)
\* What the claims say of the inputs, stated apart from the code above.
LinkDone == link # Pending

IsUrl == LinkDone /\ link.result.kind = "URL"

\* The URL getRepositoryInfo reads of a remote.
UrlUsed(remote) == IF remote.fetchUrl # Undefined THEN remote.fetchUrl ELSE remote.pushUrl

Parses(remote) == parseGithubUrl(UrlUsed(remote)).kind = "RepositoryName"

EitherUrlParses(remote) ==
    \/ parseGithubUrl(remote.fetchUrl).kind = "RepositoryName"
    \/ parseGithubUrl(remote.pushUrl).kind = "RepositoryName"

SomeRemoteParses == \E i \in 1..Len(git.state.remotes) : Parses(git.state.remotes[i])

FirstParsing == Min({i \in 1..Len(git.state.remotes) : Parses(git.state.remotes[i])})

ExpectedName == parseGithubUrl(UrlUsed(git.state.remotes[FirstParsing]))

\* The file below the root: its path without the root and one separator.
BelowRoot ==
    LET root == FsPath(platform, git.rootUri)
        file == FsPath(platform, selection.fileUri)
    IN  SubSeq(file, Len(root) + 2, Len(file))

ExpectedSegments == SplitOn(BelowRoot, {PathSep(platform)})

ExpectedAnchor ==
    IF selection.isSingleLine
    THEN <<"L">> \o ToString(selection.startLine + 1)
    ELSE <<"L">> \o ToString(selection.startLine + 1) \o <<"-","L">>
         \o ToString(selection.endLine + 1)

ExpectedUrl ==
    GithubOrigin \o <<"/">> \o ExpectedName.organization \o <<"/">>
    \o ExpectedName.repository \o <<"/","b","l","o","b","/">>
    \o git.state.HEAD.commit \o <<"/">> \o Join(ExpectedSegments, <<"/">>)
    \o <<"#">> \o ExpectedAnchor

ExampleUrl ==
    <<"h","t","t","p","s",":","/","/","g","i","t","h","u","b",".","c","o","m","/",
      "f","o","o","/","b","a","r","/","b","l","o","b","/","a","b","c","1","2","3","/",
      "s","r","c","/","e","x","t","e","n","s","i","o","n",".","t","s","#","L","5">>

IsExample ==
    /\ IsUrl
    /\ ExpectedName = RepositoryName(<<"f","o","o">>, <<"b","a","r">>)
    /\ git.state.HEAD.commit = Commit
    /\ ExpectedSegments = << <<"s","r","c">>, <<"e","x","t","e","n","s","i","o","n",".","t","s">> >>
    /\ selection.startLine = 4 /\ selection.isSingleLine

\* The characters the URL does not keep as they are, and the segments it
\* does not keep.
Rewritten == {" ", "\"", "#", "<", ">", "?", "{", "}", "\\", "\t", "\n", "\r"}

Plain(s) ==
    /\ \A i \in 1..Len(s) : s[i] \notin Rewritten
    /\ \A k \in 1..Len(SplitOn(s, {"/"})) : SplitOn(s, {"/"})[k] \notin {<<".">>, <<".", ".">>}

\* C1, as claimed: whenever getLinkForSelection succeeds the URL is exactly
\* https://github.com/<organization>/<repository>/blob/<HEAD.commit>/<the
\* segments of the relative path joined by slashes>#<anchor>.
C1_ExactUrl == IsUrl => UrlToString(link.result) = ExpectedUrl

\* C1, as amended: whenever getLinkForSelection succeeds and the
\* organization, the repository, the commit and the path segments hold no
\* character the URL rewrites (space, double quote, hash, angle brackets,
\* question mark, braces, backslash, tab, newline) and no single-dot or
\* double-dot segment, the URL is exactly that string; and the example of
\* the claim gives https://github.com/foo/bar/blob/abc123/src/extension.ts#L5.
C1_PlainUrl ==
    /\ (/\ IsUrl
        /\ Plain(ExpectedName.organization) /\ Plain(ExpectedName.repository)
        /\ Plain(git.state.HEAD.commit)
        /\ \A k \in 1..Len(ExpectedSegments) : Plain(ExpectedSegments[k]))
       => UrlToString(link.result) = ExpectedUrl
    /\ IsExample => UrlToString(link.result) = ExampleUrl

C1_Witness == IsExample /\ UrlToString(link.result) = ExampleUrl

SomeChange ==
    /\ git # Null
    /\ \E i \in 1..Len(git.state.workingTreeChanges) :
         git.state.workingTreeChanges[i].uri.path = selection.fileUri.path

\* C2, as claimed: in every repository state with a working-tree change of
\* the selected file getLinkForSelection fails with FileModified, naming the
\* file, and never reaches getCommitHash; and a URL is produced only when no
\* change is of the file.
C2_AlwaysFileModified ==
    LinkDone =>
        /\ SomeChange => /\ link.result = FileModified(selection.fileUri)
                         /\ ~Contains(link.calls, "getCommitHash")
        /\ link.result.kind = "URL" => ~SomeChange

\* C2, as amended: in every repository state with a working-tree change of
\* the selected file in which some remote parses, getLinkForSelection fails
\* with FileModified, naming the file; in every state with such a change,
\* whatever HEAD is, getCommitHash is not reached and no URL is produced.
C2_FileModifiedAfterRemote ==
    LinkDone =>
        /\ (SomeChange /\ SomeRemoteParses)
             => /\ link.result = FileModified(selection.fileUri)
                /\ link.result.file = selection.fileUri.path
        /\ SomeChange => /\ ~Contains(link.calls, "getCommitHash")
                         /\ link.result.kind # "URL"

C2_Witness ==
    /\ LinkDone /\ SomeChange /\ SomeRemoteParses
    /\ git.state.HEAD = Ref(Commit)
    /\ link.result = FileModified(selection.fileUri)

RepoDone == repoInfo # Pending /\ git # Null

FirstEither ==
    Min({i \in 1..Len(git.state.remotes) : EitherUrlParses(git.state.remotes[i])})

\* C3, as claimed: the organization and repository are those of the first
\* remote, in the order supplied, one of whose two URLs matches a GitHub
\* pattern.
C3_EitherUrl ==
    (RepoDone /\ \E i \in 1..Len(git.state.remotes) : EitherUrlParses(git.state.remotes[i]))
    => /\ repoInfo.kind = "RepositoryInfo"
       /\ RepositoryName(repoInfo.organization, repoInfo.repository)
            \in {parseGithubUrl(git.state.remotes[FirstEither].fetchUrl),
                 parseGithubUrl(git.state.remotes[FirstEither].pushUrl)}

\* C3, as amended: the organization and repository are those of the first
\* remote, in the order supplied, whose fetch URL, or whose push URL when it
\* has no fetch URL, matches a GitHub pattern; the remotes before it are
\* skipped and the remotes after it are not consulted.
C3_FetchElsePush ==
    (RepoDone /\ SomeRemoteParses)
    => /\ repoInfo.kind = "RepositoryInfo"
       /\ RepositoryName(repoInfo.organization, repoInfo.repository) = ExpectedName
       /\ \A i \in 1..(FirstParsing - 1) : ~Parses(git.state.remotes[i])
       /\ LET upTo == [git EXCEPT !.state.remotes = SubSeq(@, 1, FirstParsing)]
              again == getRepositoryInfo(upTo, PosixFile)
          IN  /\ again.kind = "RepositoryInfo"
              /\ again.organization = repoInfo.organization
              /\ again.repository = repoInfo.repository

C3_Witness ==
    /\ RepoDone
    /\ git.state.remotes = <<Remote(HttpsGitlab, SshFooBar), Remote(Undefined, HttpsBazQux)>>
    /\ repoInfo.kind = "RepositoryInfo"
    /\ repoInfo.organization = <<"b","a","z">>
    /\ repoInfo.repository = <<"q","u","x">>

Injections(n) == {f \in [1..n -> 1..n] : \A i, j \in 1..n : f[i] = f[j] => i = j}

HasUrl(remote) == remote.fetchUrl # Undefined \/ remote.pushUrl # Undefined

\* C4: getRepositoryInfo fails with NoGitHubRemote exactly when no remote of
\* the repository parses, for every number of remotes, none included, and
\* for every permutation of the list; and a remote with neither URL only
\* moves the iteration on: the list without such remotes gives the same
\* organization and repository, or the same failure.
C4_NoGitHubRemote ==
    RepoDone =>
        LET remotes == git.state.remotes
            fails(rs) == getRepositoryInfo([git EXCEPT !.state.remotes = rs], PosixFile)
                            = NoGitHubRemote
            name(info) == IF info.kind = "RepositoryInfo"
                          THEN <<info.organization, info.repository>> ELSE <<>>
        IN  /\ repoInfo = NoGitHubRemote <=> ~SomeRemoteParses
            /\ repoInfo.kind \in {"RepositoryInfo", "GetPermalinkError"}
            /\ repoInfo.kind = "GetPermalinkError" => repoInfo = NoGitHubRemote
            /\ \A f \in Injections(Len(remotes)) :
                 fails([i \in 1..Len(remotes) |-> remotes[f[i]]]) <=> repoInfo = NoGitHubRemote
            /\ name(getRepositoryInfo(
                       [git EXCEPT !.state.remotes = SelectSeq(remotes, HasUrl)], PosixFile))
                 = name(repoInfo)

C4_Witness ==
    /\ RepoDone
    /\ Len(git.state.remotes) = 2
    /\ git.state.remotes[1] = Remote(Undefined, Undefined)
    /\ git.state.remotes[2] = Remote(HttpsGitlab, Undefined)
    /\ repoInfo = NoGitHubRemote

ParseDone == parsed # Pending

\* The input is ORG/REPO, with or without .git, after one of the heads of
\* the claim, with a non-empty ORG and REPO and nothing before or after.
WellFormed(forms) ==
    /\ given.form \in forms
    /\ given.host = GithubHost
    /\ given.junk = "none"
    /\ given.org # <<>>

\* C5: for every non-empty ORG without a slash and every non-empty REPO (one
\* that does not itself end in the literal .git), parseGithubUrl gives
\* {organization: ORG, repository: REPO} for git@github.com:ORG/REPO and
\* https://github.com/ORG/REPO, with and without a trailing .git: only the
\* trailing literal .git is removed.
C5_DotGitOnly ==
    (/\ ParseDone /\ WellFormed({"ssh", "https"})
     /\ given.repo # <<>> /\ ~EndsWith(given.repo, DotGit))
    => parsed = RepositoryName(given.org, given.repo)

\* C6: parseGithubUrl returns a RepositoryName only for the whole-string
\* matches of the SSH and HTTP(S) shapes with the host github.com, and
\* NoMatch for undefined, for any other host, and for a string of which only
\* a proper part matches.
C6_GithubOnly ==
    ParseDone =>
        (parsed.kind = "RepositoryName"
         <=> /\ WellFormed(Forms)
             /\ given.repo \o (IF given.dotGit THEN DotGit ELSE <<>>) # <<>>)

\* C7: whenever parseGithubUrl returns a RepositoryName the organization and
\* the repository are non-empty and hold no slash.
C7_NoSlash ==
    (ParseDone /\ parsed.kind = "RepositoryName")
    => /\ parsed.organization # <<>> /\ ~Contains(parsed.organization, "/")
       /\ parsed.repository # <<>> /\ ~Contains(parsed.repository, "/")

\* C8, as claimed: the anchor of a single-line selection with startLine 4 is
\* L5, and the anchor of a selection with startLine 4 and endLine 9 is L5-L9.
C8_L5L9 ==
    IsUrl =>
        /\ (selection.startLine = 4 /\ selection.isSingleLine)
             => link.result.hash = <<"#","L","5">>
        /\ (selection.startLine = 4 /\ selection.endLine = 9)
             => link.result.hash = <<"#","L","5","-","L","9">>

\* C8, as amended: the anchor of a single-line selection with startLine 4 is
\* L5, and the anchor of a selection with startLine 4 and endLine 9 is
\* L5-L10.
C8_L5L10 ==
    IsUrl =>
        /\ (selection.startLine = 4 /\ selection.isSingleLine)
             => link.result.hash = <<"#","L","5">>
        /\ (selection.startLine = 4 /\ selection.endLine = 9)
             => link.result.hash = <<"#","L","5","-","L","1","0">>

C8_Witness ==
    /\ IsUrl
    /\ selection.startLine = 4 /\ selection.endLine = 9
    /\ link.result.hash = <<"#","L","5","-","L","1","0">>

\* The directory levels of the file below the root, whichever separator
\* the path is written with.
Levels == SplitOn(BelowRoot, {"/", "\\"})

\* C9: whichever separator the relative path uses, the URL holds no
\* backslash, and after the commit its path has one segment for each level
\* of the relative path, in order, separated by slashes.
C9_ForwardSlashes ==
    IsUrl =>
        /\ ~Contains(UrlToString(link.result), "\\")
        /\ LET segments == SplitOn(link.result.pathname, {"/"})
           IN  SubSeq(segments, 6, Len(segments))
                 = [k \in 1..Len(Levels) |-> PercentEncode(Levels[k], PathPercentEncode)]

C9_Witness ==
    /\ IsUrl
    /\ Contains(BelowRoot, "\\")
    /\ Len(Levels) = 2
    /\ ~Contains(UrlToString(link.result), "\\")

Messages(v) == v.errorMessages + v.infoMessages

\* C10: in every run of the command, a GetPermalinkError is shown in exactly
\* one error message, with no write to the clipboard; the text is written at
\* most once, and only when the link was resolved; once the write has
\* settled exactly one message has been shown, the information message when
\* it succeeded and the error message when it failed, and none before; any
\* other error is thrown again and no message is shown; and the clipboard
\* holds nothing but the text of a write that succeeded.
C10_Notifications ==
    /\ \A i \in 1..Len(invocations) :
         LET v == invocations[i]
         IN  /\ v.outcome.kind \in {"GetPermalinkError", "writeText", "Error"}
             /\ v.outcome.kind = "GetPermalinkError"
                  => /\ v.errorMessages = 1 /\ v.infoMessages = 0
                     /\ v.writes = 0 /\ v.promise = "none" /\ ~v.thrown
             /\ v.writes <= 1
             /\ v.writes = 1 <=> v.outcome.kind = "writeText"
             /\ v.outcome.kind = "writeText"
                  => /\ ~v.thrown
                     /\ v.promise = "pending" => Messages(v) = 0
                     /\ v.promise = "fulfilled" => v.infoMessages = 1 /\ v.errorMessages = 0
                     /\ v.promise = "rejected" => v.infoMessages = 0 /\ v.errorMessages = 1
                     /\ v.promise # "none"
             /\ v.outcome.kind = "Error"
                  => v.thrown /\ Messages(v) = 0 /\ v.writes = 0 /\ v.promise = "none"
    /\ clipboard # <<>>
         => \E i \in 1..Len(invocations) :
              /\ invocations[i].promise = "fulfilled"
              /\ invocations[i].outcome.text = clipboard

C10_Witness ==
    /\ Len(invocations) = 2
    /\ invocations[1].outcome.kind = "GetPermalinkError"
    /\ invocations[1].errorMessages = 1 /\ invocations[1].writes = 0
    /\ invocations[2].promise = "fulfilled" /\ invocations[2].infoMessages = 1
    /\ clipboard = invocations[2].outcome.text

=============================================================================
